---------------------------- MODULE Spec2Model ----------------------------
(***************************************************************************)
(* Model of the keyway CLI push and pull commands (internal/cmd push.go    *)
(* and pull.go): dotenv parsing, the push- and pull-direction diffs, the   *)
(* merge policy, and the two command flows against the disk, the operator  *)
(* and the vault.                                                          *)
(*                                                                         *)
(* Go strings are modelled as sequences of one-character strings, Go maps  *)
(* as functions from keys to values.  The order in which a Go `range`      *)
(* visits a map is unspecified: every loop over a map takes the order it   *)
(* visits the keys in as a nondeterministic input.                         *)
(***************************************************************************)
EXTENDS Integers, Sequences, FiniteSets, TLC

\* ------------------------------------------------------------------ bounds

\* Largest number of keys in a SecretSet given to the diff functions alone.
MaxSetSize == 2

\* ------------------------------------------------------- characters, strings

NL == "\n"
EQ == "="
HASH == "#"
DQ == "\""
SQ == "'"

\* unicode.IsSpace over the characters the model uses (strings.TrimSpace).
WhiteSpace == {" ", "\t", "\n", "\r", "\f"}

\* The byte value of each character: Go compares and sorts strings by bytes.
CharCode ==
    ("\t" :> 9) @@ ("\n" :> 10) @@ ("\f" :> 12) @@ ("\r" :> 13) @@ (" " :> 32) @@ ("\"" :> 34)
    @@ ("#" :> 35) @@ ("'" :> 39) @@ ("(" :> 40) @@ (")" :> 41) @@ ("-" :> 45)
    @@ ("." :> 46) @@ ("/" :> 47) @@ ("1" :> 49) @@ ("2" :> 50) @@ (":" :> 58)
    @@ ("=" :> 61) @@ ("A" :> 65) @@ ("B" :> 66) @@ ("E" :> 69) @@ ("I" :> 73)
    @@ ("K" :> 75) @@ ("L" :> 76) @@ ("P" :> 80) @@ ("Y" :> 89) @@ ("_" :> 95)
    @@ ("a" :> 97) @@ ("b" :> 98) @@ ("c" :> 99) @@ ("d" :> 100) @@ ("e" :> 101)
    @@ ("h" :> 104) @@ ("i" :> 105) @@ ("k" :> 107) @@ ("l" :> 108) @@ ("m" :> 109)
    @@ ("n" :> 110) @@ ("o" :> 111) @@ ("p" :> 112) @@ ("r" :> 114) @@ ("s" :> 115)
    @@ ("t" :> 116) @@ ("u" :> 117) @@ ("v" :> 118) @@ ("x" :> 120) @@ ("y" :> 121)

SetMin(S) == CHOOSE x \in S : \A y \in S : x <= y
SetMax(S) == CHOOSE x \in S : \A y \in S : x >= y

\* Go's s < t on strings: bytewise lexicographic order.
StrLess(s, t) ==
    LET n == IF Len(s) < Len(t) THEN Len(s) ELSE Len(t)
        d == {i \in 1..n : s[i] # t[i]}
    IN  IF d = {} THEN Len(s) < Len(t)
        ELSE CharCode[s[SetMin(d)]] < CharCode[t[SetMin(d)]]

\* strings.HasPrefix(s, prefix)
HasPrefix(s, prefix) ==
    /\ Len(prefix) <= Len(s)
    /\ SubSeq(s, 1, Len(prefix)) = prefix

\* strings.TrimPrefix(s, prefix)
TrimPrefix(s, prefix) ==
    IF HasPrefix(s, prefix) THEN SubSeq(s, Len(prefix) + 1, Len(s)) ELSE s

\* strings.TrimSpace(s)
TrimSpace(s) ==
    LET keep == {i \in 1..Len(s) : s[i] \notin WhiteSpace}
    IN  IF keep = {} THEN <<>> ELSE SubSeq(s, SetMin(keep), SetMax(keep))

\* strings.TrimRight(s, "\n")
TrimRightNL(s) ==
    LET keep == {i \in 1..Len(s) : s[i] # NL}
    IN  IF keep = {} THEN <<>> ELSE SubSeq(s, 1, SetMax(keep))

\* strings.Index(s, c) for a one-byte c: 0-based, -1 when c does not occur.
Index(s, c) ==
    LET at == {i \in 1..Len(s) : s[i] = c}
    IN  IF at = {} THEN -1 ELSE SetMin(at) - 1

\* strings.Split(s, "\n")
RECURSIVE Split(_)
Split(s) ==
    LET i == Index(s, NL)
    IN  IF i = -1 THEN <<s>>
        ELSE <<SubSeq(s, 1, i)>> \o Split(SubSeq(s, i + 2, Len(s)))

\* The concatenation of a sequence of strings.
RECURSIVE Concat(_)
Concat(ss) == IF ss = <<>> THEN <<>> ELSE Head(ss) \o Concat(Tail(ss))

\* ------------------------------------------------------------- Go maps

EmptyMap == [k \in {} |-> <<>>]

\* m[k] = v
MapPut(m, k, v) == [x \in DOMAIN m \cup {k} |-> IF x = k THEN v ELSE m[x]]

\* The orders a `range` over a map with key set S can visit its keys in.
RangeOrders(S) ==
    {o \in [1..Cardinality(S) -> S] : \A i, j \in DOMAIN o : o[i] = o[j] => i = j}

\* The elements of a sequence, as a set.
Range(s) == {s[i] : i \in DOMAIN s}

\* ------------------------------------------------------------- parsing

\* parseLine without the overwrite of an entry the map already has: the
\* first occurrence of a key wins.
parseLineFirstWins(rawLine, result) ==
    LET line == TrimSpace(rawLine)
        idx == Index(line, EQ)
        key == TrimSpace(SubSeq(line, 1, idx))
        value == SubSeq(line, idx + 2, Len(line))
        quoted == /\ Len(value) >= 2
                  /\ \/ value[1] = DQ /\ value[Len(value)] = DQ
                     \/ value[1] = SQ /\ value[Len(value)] = SQ
        stripped == IF quoted THEN SubSeq(value, 2, Len(value) - 1) ELSE value
    IN  IF line = <<>> \/ HasPrefix(line, <<HASH>>) THEN result
        ELSE IF idx = -1 THEN result
        ELSE IF key # <<>> /\ key \notin DOMAIN result THEN MapPut(result, key, stripped)
        ELSE result

\* parseLine with the quotes stripped as long as the value is wrapped in a
\* pair: a second layer goes too.
parseLineStripAgain(rawLine, result) ==
    LET line == TrimSpace(rawLine)
        idx == Index(line, EQ)
        key == TrimSpace(SubSeq(line, 1, idx))
        value == SubSeq(line, idx + 2, Len(line))
        quoted(v) == /\ Len(v) >= 2
                     /\ \/ v[1] = DQ /\ v[Len(v)] = DQ
                        \/ v[1] = SQ /\ v[Len(v)] = SQ
        strip(v) == IF quoted(v) THEN SubSeq(v, 2, Len(v) - 1) ELSE v
    IN  IF line = <<>> \/ HasPrefix(line, <<HASH>>) THEN result
        ELSE IF idx = -1 THEN result
        ELSE IF key # <<>> THEN MapPut(result, key, strip(strip(value)))
        ELSE result

\* The body of parseEnvContent's loop: one line applied to the result map.
parseLine(rawLine, result) ==
    LET line == TrimSpace(rawLine)
        idx == Index(line, EQ)
        key == TrimSpace(SubSeq(line, 1, idx))
        value == SubSeq(line, idx + 2, Len(line))
        quoted == /\ Len(value) >= 2
                  /\ \/ value[1] = DQ /\ value[Len(value)] = DQ
                     \/ value[1] = SQ /\ value[Len(value)] = SQ
        stripped == IF quoted THEN SubSeq(value, 2, Len(value) - 1) ELSE value
    IN  IF line = <<>> \/ HasPrefix(line, <<HASH>>) THEN result
        ELSE IF idx = -1 THEN result
        ELSE IF key # <<>> THEN MapPut(result, key, stripped)
        ELSE result

RECURSIVE parseLines(_, _)
parseLines(lines, result) ==
    IF lines = <<>> THEN result
    ELSE parseLines(Tail(lines), parseLine(Head(lines), result))

parseEnvContent(content) == parseLines(Split(content), EmptyMap)

\* --------------------------------------------------------------- diffs

\* calculatePushDiff without the comparison of the two values: a key of both
\* maps is always listed as changed.
calculatePushDiffNoCompare(local, vault, localOrder, vaultOrder) ==
    LET isChanged(key) == key \in DOMAIN vault
        isAdded(key) == key \notin DOMAIN vault
        isRemoved(key) == key \notin DOMAIN local
    IN  [added |-> SelectSeq(localOrder, isAdded),
         changed |-> SelectSeq(localOrder, isChanged),
         removed |-> SelectSeq(vaultOrder, isRemoved)]

\* calculatePushDiff without its second loop: no key is ever listed as
\* removed.
calculatePushDiffNoRemoved(local, vault, localOrder, vaultOrder) ==
    LET isChanged(key) == key \in DOMAIN vault /\ local[key] # vault[key]
        isAdded(key) == key \notin DOMAIN vault
    IN  [added |-> SelectSeq(localOrder, isAdded),
         changed |-> SelectSeq(localOrder, isChanged),
         removed |-> <<>>]

\* calculatePushDiff(local, vault); localOrder and vaultOrder are the orders
\* its two loops visit the maps in, SelectSeq the appends of one loop.
calculatePushDiff(local, vault, localOrder, vaultOrder) ==
    LET isChanged(key) == key \in DOMAIN vault /\ local[key] # vault[key]
        isAdded(key) == key \notin DOMAIN vault
        isRemoved(key) == key \notin DOMAIN local
    IN  [added |-> SelectSeq(localOrder, isAdded),
         changed |-> SelectSeq(localOrder, isChanged),
         removed |-> SelectSeq(vaultOrder, isRemoved)]

\* (*pushDiff).hasChanges
pushDiffHasChanges(d) ==
    Len(d.added) > 0 \/ Len(d.changed) > 0 \/ Len(d.removed) > 0

\* calculateDiff with its second loop over the vault's keys instead of the
\* local ones: no key is ever local-only.
calculateDiffWrongLoop(local, vault, vaultOrder, localOrder) ==
    LET isChanged(key) == key \in DOMAIN local /\ local[key] # vault[key]
        isUnchanged(key) == key \in DOMAIN local /\ local[key] = vault[key]
        isAdded(key) == key \notin DOMAIN local
        isLocalOnly(key) == key \notin DOMAIN vault
    IN  [added |-> SelectSeq(vaultOrder, isAdded),
         changed |-> SelectSeq(vaultOrder, isChanged),
         localOnly |-> SelectSeq(vaultOrder, isLocalOnly),
         unchanged |-> SelectSeq(vaultOrder, isUnchanged)]

\* calculateDiff(local, vault); vaultOrder and localOrder are the orders its
\* two loops visit the maps in.
calculateDiff(local, vault, vaultOrder, localOrder) ==
    LET isChanged(key) == key \in DOMAIN local /\ local[key] # vault[key]
        isUnchanged(key) == key \in DOMAIN local /\ local[key] = vault[key]
        isAdded(key) == key \notin DOMAIN local
        isLocalOnly(key) == key \notin DOMAIN vault
    IN  [added |-> SelectSeq(vaultOrder, isAdded),
         changed |-> SelectSeq(vaultOrder, isChanged),
         localOnly |-> SelectSeq(localOrder, isLocalOnly),
         unchanged |-> SelectSeq(vaultOrder, isUnchanged)]

\* hasChanges of a secretsDiff that counts the unchanged keys too.
secretsDiffHasChangesAny(d) ==
    Len(d.added) > 0 \/ Len(d.changed) > 0 \/ Len(d.localOnly) > 0
        \/ Len(d.unchanged) > 0

\* (*secretsDiff).hasChanges
secretsDiffHasChanges(d) ==
    Len(d.added) > 0 \/ Len(d.changed) > 0 \/ Len(d.localOnly) > 0

\* --------------------------------------------------------------- merge

LocalHeader ==
    <<"\n", "\n", "#", " ", "L", "o", "c", "a", "l", " ", "v", "a", "r", "i",
      "a", "b", "l", "e", "s", " ", "(", "n", "o", "t", " ", "i", "n", " ",
      "v", "a", "u", "l", "t", ")", "\n">>

\* The localOnlyLines of mergeSecrets, for the order its loop visits local in.
RECURSIVE localOnlyLines(_, _, _)
localOnlyLines(order, local, vault) ==
    IF order = <<>> THEN <<>>
    ELSE (IF Head(order) \notin DOMAIN vault
          THEN <<Head(order) \o <<EQ>> \o local[Head(order)]>>
          ELSE <<>>)
         \o localOnlyLines(Tail(order), local, vault)

\* mergeSecrets without the trim of the vault content's trailing newlines.
mergeSecretsNoTrim(vaultContent, local, vault, localOrder) ==
    LET lines == localOnlyLines(localOrder, local, vault)
    IN  IF Len(lines) > 0
        THEN vaultContent \o LocalHeader
             \o Concat([i \in DOMAIN lines |-> lines[i] \o <<NL>>])
        ELSE vaultContent \o <<NL>>

\* mergeSecrets(vaultContent, local, vault); localOrder is the order its loop
\* visits local in.
mergeSecrets(vaultContent, local, vault, localOrder) ==
    LET result == TrimRightNL(vaultContent)
        lines == localOnlyLines(localOrder, local, vault)
    IN  IF Len(lines) > 0
        THEN result \o LocalHeader
             \o Concat([i \in DOMAIN lines |-> lines[i] \o <<NL>>])
        ELSE result \o <<NL>>

\* ------------------------------------------------- file names, environments

DotEnv == <<".", "e", "n", "v">>
DotEnvDot == <<".", "e", "n", "v", ".">>
DotEnvP == <<".", "e", "n", "v", ".", "p">>
EnvLocal == <<".", "e", "n", "v", ".", "l", "o", "c", "a", "l">>
EnvExample == <<".", "e", "n", "v", ".", "e", "x", "a", "m", "p", "l", "e">>
EnvSample == <<".", "e", "n", "v", ".", "s", "a", "m", "p", "l", "e">>
EnvTemplate == <<".", "e", "n", "v", ".", "t", "e", "m", "p", "l", "a", "t", "e">>
Development == <<"d", "e", "v", "e", "l", "o", "p", "m", "e", "n", "t">>
EnvP == <<"p">>

\* The text runPush writes to a new .env file.
Template ==
    <<"#", " ", "A", "d", "d", " ", "y", "o", "u", "r", " ", "e", "n", "v", "i",
      "r", "o", "n", "m", "e", "n", "t", " ", "v", "a", "r", "i", "a", "b", "l",
      "e", "s", " ", "h", "e", "r", "e", "\n", "#", " ", "E", "x", "a", "m", "p",
      "l", "e", ":", " ", "A", "P", "I", "_", "K", "E", "Y", "=", "y", "o", "u",
      "r", "-", "a", "p", "i", "-", "k", "e", "y", "\n">>

\* excludeFiles of discoverEnvFiles.
excludeFiles == {EnvLocal, EnvExample, EnvSample, EnvTemplate}

\* filepath.Base(path)
Base(path) ==
    LET keep == {i \in 1..Len(path) : path[i] # "/"}
        stripped == IF keep = {} THEN <<>> ELSE SubSeq(path, 1, SetMax(keep))
        slashes == {i \in 1..Len(stripped) : stripped[i] = "/"}
    IN  IF path = <<>> THEN <<".">>
        ELSE IF stripped = <<>> THEN <<"/">>
        ELSE IF slashes = {} THEN stripped
        ELSE SubSeq(stripped, SetMax(slashes) + 1, Len(stripped))

\* deriveEnvFromFile(file)
deriveEnvFromFile(f) ==
    LET base == Base(f)
    IN  IF base = DotEnv THEN Development
        ELSE IF HasPrefix(base, DotEnvDot) THEN TrimPrefix(base, DotEnvDot)
        ELSE Development

\* The names of S in the order os.ReadDir lists them: sorted by file name.
SortedNames(S) ==
    CHOOSE o \in RangeOrders(S) :
        \A i, j \in DOMAIN o : i < j => StrLess(o[i], o[j])

\* discoverEnvFiles(), for the set of regular files of the working directory
\* (an unreadable directory has no entries).
discoverEnvFiles(names) ==
    LET kept == {n \in names : HasPrefix(n, DotEnv) /\ n \notin excludeFiles}
        order == SortedNames(kept)
    IN  [i \in DOMAIN order |->
            [file |-> order[i], env |-> deriveEnvFromFile(order[i])]]

\* One option of runPush's file prompt: "<file> (env: <env>)".
selectOption(c) ==
    c.file \o <<" ", "(", "e", "n", "v", ":", " ">> \o c.env \o <<")">>

\* The loop of runPush after the prompt: the first candidate whose file name
\* is a prefix of the selected option sets file, and env when it was not given.
selectCandidate(selected, candidates, file0, env0) ==
    LET hits == {i \in DOMAIN candidates : HasPrefix(selected, candidates[i].file)}
        c == candidates[SetMin(hits)]
    IN  IF hits = {} THEN [file |-> file0, env |-> env0]
        ELSE [file |-> c.file, env |-> IF env0 = <<>> THEN c.env ELSE env0]

\* The "Defaults" block of runPush.
pushDefaults(candidates, file0, env0) ==
    LET f == IF file0 # <<>> THEN file0
             ELSE IF Len(candidates) > 0 THEN candidates[1].file
             ELSE DotEnv
        e == IF file0 = <<>> /\ Len(candidates) > 0 /\ env0 = <<>>
             THEN candidates[1].env
             ELSE env0
    IN  [file |-> f, env |-> IF e = <<>> THEN deriveEnvFromFile(f) ELSE e]

\* ------------------------------------------------------------- the vault

\* The text the vault returns for a SecretSet stored by a full-replace upload:
\* one KEY=VALUE line per entry, unquoted, sorted by key.
Serialize(m) ==
    LET order == SortedNames(DOMAIN m)
    IN  Concat([i \in DOMAIN order |-> order[i] \o <<EQ>> \o m[order[i]] \o <<NL>>])


\* ------------------------------------------------------------- inputs

\* Most invocations of push or pull in one behaviour.
MaxRuns == 2

\* Most writes of other clients to the vault in one behaviour.
MaxOtherWrites == 1

KeyA == <<"A">>
KeyAB == <<"A", "B">>
KeyB == <<"B">>
DiffKeys == {KeyA, KeyAB, KeyB}
DiffValues == {<<"1">>, <<"2">>}

\* The SecretSets the diff functions are checked on.
DiffSecretSets ==
    UNION {[S -> DiffValues] :
              S \in {T \in SUBSET DiffKeys : Cardinality(T) <= MaxSetSize}}

FileNames == {DotEnv, DotEnvP, EnvLocal}
EnvNames == {Development, EnvP}

TextBlank == <<" ", "\n">>
TextComment == <<"#", "c", "\n">>
TextA1 == <<"A", "=", "1", "\n">>
TextA2B1 == <<"A", "=", "2", "\n", "B", "=", "1", "\n">>
TextAQ == <<"A", "=", "\"", "\"", "1", "\"", "\"", "\n">>
TextB1 == <<"B", "=", "1", "\n">>
TextRemoteA2 == <<"#", "c", "\n", "A", "=", "2", "\n", "\n", "\n">>
TextRemoteB2 == <<"B", "=", "2">>

\* The texts the .env file starts with.
LocalTexts == {TextBlank, TextComment, TextA1, TextA2B1, TextAQ}

\* The texts the vault returns at the start, or another client stores.
RemoteTexts == {TextA1, TextRemoteA2, TextRemoteB2}

NoFile == [exists |-> FALSE, data |-> <<>>]
FileOf(text) == [exists |-> TRUE, data |-> text]
NoVault == [found |-> FALSE, content |-> <<>>]
NoSelection == [file |-> <<>>, env |-> <<>>]
VaultOf(text) == [found |-> TRUE, content |-> text]

EmptyPushDiff == [added |-> <<>>, changed |-> <<>>, removed |-> <<>>]
EmptySecretsDiff ==
    [added |-> <<>>, changed |-> <<>>, localOnly |-> <<>>, unchanged |-> <<>>]

\* The results with which a command returns a non-nil error.
ErrorResults ==
    {"no .env file found", "write failed", "select failed", "file not found",
     "file is empty", "no variables found", "repo not detected",
     "login failed", "fetch failed", "not found", "confirmation required",
     "upload failed"}

\* ------------------------------------------------------------- state

VARIABLES
    files,          \* the working directory: file name -> [exists, data]
    unreadable,     \* the files os.ReadFile fails on although they exist
    vault,          \* the vault of the repository: environment -> [found, content]
    gitignored,     \* git.CheckEnvGitignore()
    cmd,            \* the command running: "none", "push", "pull", "diff"
    pc,             \* the command's position
    interactive,    \* ui.IsInteractive()
    yes,            \* --yes
    force,          \* --force
    file,           \* file
    env,            \* env
    content,        \* runPush: content
    secrets,        \* runPush: secrets
    vaultSecrets,   \* vaultSecrets
    vaultContent,   \* runPull: vaultContent
    localSecrets,   \* runPull: localSecrets
    localExists,    \* runPull: localExists
    pdiff,          \* runPush: diff
    sdiff,          \* runPull: diff
    finalContent,   \* runPull: finalContent
    result,         \* "" while running, then how the command returned
    runs,           \* invocations started
    otherWrites,    \* writes of other clients to the vault
    fetches,        \* PullSecrets calls of this invocation
    uploads,        \* PushSecrets calls of this invocation
    writes,         \* os.WriteFile calls of this invocation that succeeded
    confirmed,      \* the operator answered this invocation's prompt with yes
    filesAtStart,   \* files when this invocation started
    synced,         \* the <<file, env>> pairs such that env's vault holds the last
                    \* upload of file and neither was written since
    selected,       \* runPush: the candidate the operator picked at the prompt
    vaultAtFetch,   \* what the vault held when this push fetched it
    vaultAtUpload   \* what the vault held when this push's upload replaced it

envVars == <<files, unreadable, vault, gitignored>>
flagVars == <<cmd, interactive, yes, force>>
localVars ==
    <<content, secrets, vaultSecrets, vaultContent, localSecrets, localExists,
      pdiff, sdiff, finalContent>>
histVars ==
    <<runs, otherWrites, fetches, uploads, writes, confirmed, filesAtStart, synced,
      selected, vaultAtFetch, vaultAtUpload>>
vars == <<envVars, flagVars, file, env, localVars, pc, result, histVars>>

\* synced after a write of file f, after a write to the vault of e.
FileWritten(f) == {p \in synced : p[1] # f}
VaultWritten(e) == {p \in synced : p[2] # e}

\* os.ReadFile(name)
ReadFile(name) ==
    IF name \in DOMAIN files /\ files[name].exists /\ name \notin unreadable
    THEN [ok |-> TRUE, data |-> files[name].data]
    ELSE [ok |-> FALSE, data |-> <<>>]

InitLocals ==
    /\ content = <<>>
    /\ secrets = EmptyMap
    /\ vaultSecrets = EmptyMap
    /\ vaultContent = <<>>
    /\ localSecrets = EmptyMap
    /\ localExists = FALSE
    /\ pdiff = EmptyPushDiff
    /\ sdiff = EmptySecretsDiff
    /\ finalContent = <<>>

\* The locals of a command as it starts.
ResetLocals ==
    /\ content' = <<>>
    /\ secrets' = EmptyMap
    /\ vaultSecrets' = EmptyMap
    /\ vaultContent' = <<>>
    /\ localSecrets' = EmptyMap
    /\ localExists' = FALSE
    /\ pdiff' = EmptyPushDiff
    /\ sdiff' = EmptySecretsDiff
    /\ finalContent' = <<>>

InitHistory ==
    /\ runs = 0
    /\ otherWrites = 0
    /\ fetches = 0
    /\ uploads = 0
    /\ writes = 0
    /\ confirmed = FALSE
    /\ synced = {}
    /\ selected = NoSelection
    /\ vaultAtFetch = NoVault
    /\ vaultAtUpload = NoVault

\* Before the first invocation: a working directory and a vault.
Init ==
    /\ files \in {f \in [FileNames -> {NoFile} \cup {FileOf(t) : t \in LocalTexts \cup {TextB1}}] :
                    /\ f[DotEnvP] \in {NoFile, FileOf(TextB1)}
                    /\ f[DotEnv] # FileOf(TextB1)
                    /\ f[EnvLocal] = FileOf(TextA1)}
    /\ unreadable \in {u \in SUBSET {DotEnv} : \A n \in u : files[n].exists}
    /\ vault \in {v \in [EnvNames -> {NoVault} \cup {VaultOf(t) : t \in RemoteTexts}] :
                    v[EnvP] = NoVault}
    /\ gitignored \in BOOLEAN
    /\ cmd = "none"
    /\ pc = "idle"
    /\ interactive = FALSE
    /\ yes = FALSE
    /\ force = FALSE
    /\ file = <<>>
    /\ env = <<>>
    /\ result = ""
    /\ filesAtStart = files
    /\ InitLocals
    /\ InitHistory


\* ------------------------------------------------------------- commands

\* A command returns: nothing more of it runs.
Return(r) ==
    /\ result' = r
    /\ pc' = "done"

\* The start of runPush and runPull: the .gitignore check and the flags.
Start(c, fileFlag, envFlag) ==
    /\ pc = "idle"
    /\ runs < MaxRuns
    /\ cmd' = c
    /\ \E i, y, f \in BOOLEAN :
        /\ interactive' = i
        /\ yes' = y
        /\ force' = (c = "pull" /\ f)
        /\ IF ~gitignored /\ i
           THEN \E add, added \in BOOLEAN : gitignored' = (add /\ added)
           ELSE gitignored' = gitignored
    /\ file' = fileFlag
    /\ env' = envFlag
    /\ pc' = IF c = "push" THEN "discover" ELSE "detect"
    /\ result' = ""
    /\ ResetLocals
    /\ runs' = runs + 1
    /\ fetches' = 0
    /\ uploads' = 0
    /\ writes' = 0
    /\ confirmed' = FALSE
    /\ filesAtStart' = files
    /\ selected' = NoSelection
    /\ vaultAtFetch' = NoVault
    /\ vaultAtUpload' = NoVault
    /\ UNCHANGED <<files, unreadable, vault, otherWrites, synced>>

\* keyway push [--file f] [--env e] [--yes]
StartPush ==
    \E flags \in {<<<<>>, <<>>>>, <<DotEnv, <<>>>>, <<DotEnvP, <<>>>>, <<<<>>, EnvP>>} :
        Start("push", flags[1], flags[2])

\* keyway pull [--file f] [--env e] [--yes] [--force]; file defaults to .env,
\* env to development.
StartPull ==
    \E flags \in {<<DotEnv, Development>>, <<DotEnvP, EnvP>>, <<DotEnv, EnvP>>} :
        Start("pull", flags[1], flags[2])

\* runPush: discover the env files, create .env when there is none, select
\* the file to push, apply the defaults.
PushDiscover ==
    /\ cmd = "push"
    /\ pc = "discover"
    /\ \E dirOk \in BOOLEAN :
        LET names == IF dirOk THEN {n \in FileNames : files[n].exists} ELSE {}
            candidates == discoverEnvFiles(names)
            options == [i \in DOMAIN candidates |-> selectOption(candidates[i])]
            proceed(f, e) ==
                LET d == pushDefaults(candidates, f, e)
                IN  /\ file' = d.file
                    /\ env' = d.env
                    /\ pc' = "read"
                    /\ UNCHANGED <<files, writes, result, synced>>
        IN  \/ /\ Len(candidates) = 0 /\ file = <<>>
               /\ ~interactive
               /\ Return("no .env file found")
               /\ UNCHANGED <<files, writes, file, env, synced, selected>>
            \/ /\ Len(candidates) = 0 /\ file = <<>>
               /\ interactive
               /\ \E create, written \in BOOLEAN :
                    IF create /\ written
                    THEN /\ files' = [files EXCEPT ![DotEnv] = FileOf(Template)]
                         /\ writes' = writes + 1
                         /\ synced' = FileWritten(DotEnv)
                         /\ Return("created")
                    ELSE /\ Return(IF create THEN "write failed" ELSE "not created")
                         /\ UNCHANGED <<files, writes, synced>>
               /\ UNCHANGED <<file, env, selected>>
            \/ /\ ~(Len(candidates) = 0 /\ file = <<>>)
               /\ file = <<>> /\ interactive /\ Len(candidates) > 1
               /\ \/ /\ Return("select failed")
                     /\ UNCHANGED <<files, writes, file, env, synced, selected>>
                  \/ \E i \in DOMAIN options :
                        LET sel == selectCandidate(options[i], candidates, file, env)
                        IN  /\ selected' = [file |-> candidates[i].file, env |-> env]
                            /\ proceed(sel.file, sel.env)
            \/ /\ ~(Len(candidates) = 0 /\ file = <<>>)
               /\ ~(file = <<>> /\ interactive /\ Len(candidates) > 1)
               /\ proceed(file, env)
               /\ UNCHANGED selected
    /\ UNCHANGED <<unreadable, vault, gitignored, flagVars, localVars>>
    /\ UNCHANGED <<runs, otherWrites, fetches, uploads, confirmed, filesAtStart,
                   vaultAtFetch, vaultAtUpload>>

\* PushRead without the check of the parsed variables: a file of comments
\* goes on to the vault.
PushReadNoVariablesCheck ==
    /\ cmd = "push"
    /\ pc = "read"
    /\ LET read == ReadFile(file)
       IN  IF ~read.ok
           THEN Return("file not found") /\ UNCHANGED <<content, secrets>>
           ELSE /\ content' = read.data
                /\ IF Len(TrimSpace(read.data)) = 0
                   THEN Return("file is empty") /\ UNCHANGED secrets
                   ELSE /\ secrets' = parseEnvContent(read.data)
                        /\ pc' = "detect"
                        /\ UNCHANGED result
    /\ UNCHANGED <<envVars, flagVars, file, env, histVars>>
    /\ UNCHANGED <<vaultSecrets, vaultContent, localSecrets, localExists, pdiff,
                   sdiff, finalContent>>

\* runPush: read the file, reject an empty file and a file with no variables.
PushRead ==
    /\ cmd = "push"
    /\ pc = "read"
    /\ LET read == ReadFile(file)
           parsed == parseEnvContent(read.data)
       IN  IF ~read.ok
           THEN Return("file not found") /\ UNCHANGED <<content, secrets>>
           ELSE /\ content' = read.data
                /\ IF Len(TrimSpace(read.data)) = 0
                   THEN Return("file is empty") /\ UNCHANGED secrets
                   ELSE /\ secrets' = parsed
                        /\ IF Cardinality(DOMAIN parsed) = 0
                           THEN Return("no variables found")
                           ELSE pc' = "detect" /\ UNCHANGED result
    /\ UNCHANGED <<envVars, flagVars, file, env, histVars>>
    /\ UNCHANGED <<vaultSecrets, vaultContent, localSecrets, localExists, pdiff,
                   sdiff, finalContent>>

\* DetectRepo with its error reported and not returned: the command goes on
\* to the login.
DetectRepoGoesOn ==
    /\ pc = "detect"
    /\ \E detected \in BOOLEAN :
        /\ pc' = "login"
        /\ result' = IF detected THEN result ELSE "repo not detected"
    /\ UNCHANGED <<envVars, flagVars, file, env, localVars, histVars>>

\* runPush, runPull: git.DetectRepo()
DetectRepo ==
    /\ pc = "detect"
    /\ \E detected \in BOOLEAN :
        IF detected THEN pc' = "login" /\ UNCHANGED result
        ELSE Return("repo not detected")
    /\ UNCHANGED <<envVars, flagVars, file, env, localVars, histVars>>

\* runPush, runPull: EnsureLogin()
EnsureLogin ==
    /\ pc = "login"
    /\ \E loggedIn \in BOOLEAN :
        IF loggedIn THEN pc' = "fetch" /\ UNCHANGED result
        ELSE Return("login failed")
    /\ UNCHANGED <<envVars, flagVars, file, env, localVars, histVars>>

\* runPush: fetch the vault's state (a 404 is an empty vault), compute and
\* show the diff.
PushFetch ==
    /\ cmd = "push"
    /\ pc = "fetch"
    /\ fetches' = fetches + 1
    /\ \E failed \in BOOLEAN :
        IF failed
        THEN Return("fetch failed") /\ UNCHANGED <<vaultSecrets, pdiff, vaultAtFetch>>
        ELSE LET remote == IF vault[env].found
                           THEN parseEnvContent(vault[env].content)
                           ELSE EmptyMap
             IN  /\ vaultSecrets' = remote
                 /\ vaultAtFetch' = vault[env]
                 /\ \E lo \in RangeOrders(DOMAIN secrets),
                       vo \in RangeOrders(DOMAIN remote) :
                        pdiff' = calculatePushDiff(secrets, remote, lo, vo)
                 /\ pc' = "confirm"
                 /\ UNCHANGED result
    /\ UNCHANGED <<envVars, flagVars, file, env>>
    /\ UNCHANGED <<content, secrets, vaultContent, localSecrets, localExists,
                   sdiff, finalContent>>
    /\ UNCHANGED <<runs, otherWrites, uploads, writes, confirmed, filesAtStart, synced,
                   selected, vaultAtUpload>>

\* The confirmation without its refusal of a non-interactive run that lacks
\* --yes: the command goes on.
ConfirmNoRefusal(needed, next) ==
    /\ pc = "confirm"
    /\ IF ~needed \/ yes \/ ~interactive
       THEN pc' = next /\ UNCHANGED <<result, confirmed>>
       ELSE \E confirm \in BOOLEAN :
                /\ confirmed' = confirm
                /\ IF confirm THEN pc' = next /\ UNCHANGED result
                   ELSE Return("aborted")
    /\ UNCHANGED <<envVars, flagVars, file, env, localVars>>
    /\ UNCHANGED <<runs, otherWrites, fetches, uploads, writes, filesAtStart, synced,
                   selected, vaultAtFetch, vaultAtUpload>>

\* runPush, runPull: the confirmation.  needed is whether the command asks
\* for one at all.
Confirm(needed, next) ==
    /\ pc = "confirm"
    /\ IF ~needed \/ yes
       THEN pc' = next /\ UNCHANGED <<result, confirmed>>
       ELSE IF interactive
       THEN \E confirm \in BOOLEAN :
                /\ confirmed' = confirm
                /\ IF confirm THEN pc' = next /\ UNCHANGED result
                   ELSE Return("aborted")
       ELSE Return("confirmation required") /\ UNCHANGED confirmed
    /\ UNCHANGED <<envVars, flagVars, file, env, localVars>>
    /\ UNCHANGED <<runs, otherWrites, fetches, uploads, writes, filesAtStart, synced,
                   selected, vaultAtFetch, vaultAtUpload>>

PushConfirm == cmd = "push" /\ Confirm(TRUE, "upload")

\* runPush: upload the secrets; the vault replaces what it holds by them.
PushUpload ==
    /\ cmd = "push"
    /\ pc = "upload"
    /\ uploads' = uploads + 1
    /\ \E uploaded \in BOOLEAN :
        IF uploaded
        THEN /\ vault' = [vault EXCEPT ![env] = VaultOf(Serialize(secrets))]
             /\ synced' = VaultWritten(env) \cup {<<file, env>>}
             /\ vaultAtUpload' = vault[env]
             /\ Return("ok")
        ELSE /\ Return("upload failed")
             /\ UNCHANGED <<vault, synced, vaultAtUpload>>
    /\ UNCHANGED <<files, unreadable, gitignored, flagVars, file, env, localVars>>
    /\ UNCHANGED <<runs, otherWrites, fetches, writes, confirmed, filesAtStart,
                   selected, vaultAtFetch>>


\* PullFetch with push's tolerance of a 404: the vault's content is taken to
\* be empty and the command goes on.
PullFetchTolerant ==
    /\ cmd = "pull"
    /\ pc = "fetch"
    /\ fetches' = fetches + 1
    /\ \E failed \in BOOLEAN :
        IF failed
        THEN Return("fetch failed") /\ UNCHANGED <<vaultContent, vaultSecrets>>
        ELSE /\ vaultContent' = vault[env].content
             /\ vaultSecrets' = parseEnvContent(vault[env].content)
             /\ pc' = "readlocal"
             /\ UNCHANGED result
    /\ UNCHANGED <<envVars, flagVars, file, env>>
    /\ UNCHANGED <<content, secrets, localSecrets, localExists, pdiff, sdiff,
                   finalContent>>
    /\ UNCHANGED <<runs, otherWrites, uploads, writes, confirmed, filesAtStart, synced,
                   selected, vaultAtFetch, vaultAtUpload>>

\* runPull: download the vault's content; any error ends the command.
PullFetch ==
    /\ cmd = "pull"
    /\ pc = "fetch"
    /\ fetches' = fetches + 1
    /\ \E failed \in BOOLEAN :
        IF failed
        THEN Return("fetch failed") /\ UNCHANGED <<vaultContent, vaultSecrets>>
        ELSE IF ~vault[env].found
        THEN Return("not found") /\ UNCHANGED <<vaultContent, vaultSecrets>>
        ELSE /\ vaultContent' = vault[env].content
             /\ vaultSecrets' = parseEnvContent(vault[env].content)
             /\ pc' = "readlocal"
             /\ UNCHANGED result
    /\ UNCHANGED <<envVars, flagVars, file, env>>
    /\ UNCHANGED <<content, secrets, localSecrets, localExists, pdiff, sdiff,
                   finalContent>>
    /\ UNCHANGED <<runs, otherWrites, uploads, writes, confirmed, filesAtStart, synced,
                   selected, vaultAtFetch, vaultAtUpload>>

\* runPull: read the local file if it can be read, compute and show the diff.
PullReadLocal ==
    /\ cmd = "pull"
    /\ pc = "readlocal"
    /\ LET read == ReadFile(file)
           local == IF read.ok THEN parseEnvContent(read.data) ELSE EmptyMap
       IN  /\ localExists' = read.ok
           /\ localSecrets' = local
           /\ \E vo \in RangeOrders(DOMAIN vaultSecrets),
                 lo \in RangeOrders(DOMAIN local) :
                    sdiff' = calculateDiff(local, vaultSecrets, vo, lo)
    /\ pc' = "confirm"
    /\ UNCHANGED <<envVars, flagVars, file, env, result, histVars>>
    /\ UNCHANGED <<content, secrets, vaultSecrets, vaultContent, pdiff,
                   finalContent>>

PullConfirm == cmd = "pull" /\ Confirm(localExists, "write")

\* The final content with --force ignored: an existing file is always merged.
prepareFinalContentNoForce(forced, exists, remoteText, local, remote, localOrder) ==
    IF ~exists
    THEN remoteText
    ELSE mergeSecrets(remoteText, local, remote, localOrder)

\* runPull, "Prepare final content": the vault's content as it is in replace
\* mode, the merge in merge mode.
prepareFinalContent(forced, exists, remoteText, local, remote, localOrder) ==
    IF forced \/ ~exists
    THEN remoteText
    ELSE mergeSecrets(remoteText, local, remote, localOrder)

\* runPull: the final content and the write of the file.
PullWrite ==
    /\ cmd = "pull"
    /\ pc = "write"
    /\ \E lo \in RangeOrders(DOMAIN localSecrets) :
        finalContent' = prepareFinalContent(force, localExists, vaultContent,
                                            localSecrets, vaultSecrets, lo)
    /\ \E written \in BOOLEAN :
        IF written
        THEN /\ files' = [files EXCEPT ![file] = FileOf(finalContent')]
             /\ writes' = writes + 1
             /\ synced' = FileWritten(file)
             /\ Return("ok")
        ELSE /\ Return("write failed")
             /\ UNCHANGED <<files, writes, synced>>
    /\ UNCHANGED <<unreadable, vault, gitignored, flagVars, file, env>>
    /\ UNCHANGED <<content, secrets, vaultSecrets, vaultContent, localSecrets,
                   localExists, pdiff, sdiff>>
    /\ UNCHANGED <<runs, otherWrites, fetches, uploads, confirmed, filesAtStart,
                   selected, vaultAtFetch, vaultAtUpload>>

\* Another client of the same repository stores a content in the vault.  A
\* command sees the vault when it fetches and when it uploads, so the write
\* is taken right before one of the two.
OtherVaultWrite ==
    /\ otherWrites < MaxOtherWrites
    /\ pc \in {"fetch", "upload"}
    /\ \E t \in RemoteTexts :
        /\ vault[Development] # VaultOf(t)
        /\ vault' = [vault EXCEPT ![Development] = VaultOf(t)]
    /\ otherWrites' = otherWrites + 1
    /\ synced' = VaultWritten(Development)
    /\ UNCHANGED <<files, unreadable, gitignored, flagVars, file, env, localVars,
                   pc, result>>
    /\ UNCHANGED <<runs, fetches, uploads, writes, confirmed, filesAtStart,
                   selected, vaultAtFetch, vaultAtUpload>>

\* The process exits: nothing of a command outlives it but the files and the
\* vault.
Exit ==
    /\ pc = "done"
    /\ pc' = "idle"
    /\ cmd' = "none"
    /\ interactive' = FALSE
    /\ yes' = FALSE
    /\ force' = FALSE
    /\ file' = <<>>
    /\ env' = <<>>
    /\ result' = ""
    /\ ResetLocals
    /\ fetches' = 0
    /\ uploads' = 0
    /\ writes' = 0
    /\ confirmed' = FALSE
    /\ filesAtStart' = files
    /\ selected' = NoSelection
    /\ vaultAtFetch' = NoVault
    /\ vaultAtUpload' = NoVault
    /\ UNCHANGED <<envVars, runs, otherWrites, synced>>

Next ==
    \/ StartPush
    \/ StartPull
    \/ PushDiscover
    \/ PushRead
    \/ DetectRepo
    \/ EnsureLogin
    \/ PushFetch
    \/ PushConfirm
    \/ PushUpload
    \/ PullFetch
    \/ PullReadLocal
    \/ PullConfirm
    \/ PullWrite
    \/ OtherVaultWrite
    \/ Exit

Spec == Init /\ [][Next]_vars

\* ------------------------------------------------- the diff functions alone

InitDiff ==
    /\ files = [n \in FileNames |-> NoFile]
    /\ unreadable = {}
    /\ vault = [e \in EnvNames |-> NoVault]
    /\ gitignored = TRUE
    /\ cmd = "diff"
    /\ pc = "input"
    /\ interactive = FALSE
    /\ yes = FALSE
    /\ force = FALSE
    /\ file = <<>>
    /\ env = <<>>
    /\ result = ""
    /\ filesAtStart = files
    /\ content = <<>>
    /\ secrets \in DiffSecretSets
    /\ localSecrets = secrets
    /\ vaultSecrets \in DiffSecretSets
    /\ vaultContent = <<>>
    /\ localExists = FALSE
    /\ pdiff = EmptyPushDiff
    /\ sdiff = EmptySecretsDiff
    /\ finalContent = <<>>
    /\ InitHistory

\* calculatePushDiff(secrets, vaultSecrets), then hasChanges() of the diff.
DiffPush ==
    /\ cmd = "diff"
    /\ pc = "input"
    /\ \E lo \in RangeOrders(DOMAIN secrets), vo \in RangeOrders(DOMAIN vaultSecrets) :
        pdiff' = calculatePushDiff(secrets, vaultSecrets, lo, vo)
    /\ result' = IF pushDiffHasChanges(pdiff') THEN "changes" ELSE "no changes"
    /\ pc' = "pushdiff"
    /\ UNCHANGED <<envVars, flagVars, file, env, histVars>>
    /\ UNCHANGED <<content, secrets, vaultSecrets, vaultContent, localSecrets,
                   localExists, sdiff, finalContent>>

\* calculateDiff(localSecrets, vaultSecrets), then hasChanges() of the diff.
DiffPull ==
    /\ cmd = "diff"
    /\ pc = "input"
    /\ \E vo \in RangeOrders(DOMAIN vaultSecrets), lo \in RangeOrders(DOMAIN localSecrets) :
        sdiff' = calculateDiff(localSecrets, vaultSecrets, vo, lo)
    /\ result' = IF secretsDiffHasChanges(sdiff') THEN "changes" ELSE "no changes"
    /\ pc' = "pulldiff"
    /\ UNCHANGED <<envVars, flagVars, file, env, histVars>>
    /\ UNCHANGED <<content, secrets, vaultSecrets, vaultContent, localSecrets,
                   localExists, pdiff, finalContent>>

NextDiff == DiffPush \/ DiffPull

SpecDiff == InitDiff /\ [][NextDiff]_vars


\* ------------------------------------------------ parseEnvContent alone

\* Longest text given to parseEnvContent alone.
MaxTextLen == 6

\* The characters of those texts: a letter, the separator, the line end, the
\* two quotes, a blank and the comment sign.
ParseChars == {"A", EQ, NL, DQ, SQ, " ", HASH}

ParseTexts == UNION {[1..n -> ParseChars] : n \in 0..MaxTextLen}

\* The lines mergeSecrets writes for localOnlyLines: each followed by "\n".
writeLines(lines) == Concat([i \in DOMAIN lines |-> lines[i] \o <<NL>>])

InitParse ==
    /\ files = [n \in FileNames |-> NoFile]
    /\ unreadable = {}
    /\ vault = [e \in EnvNames |-> NoVault]
    /\ gitignored = TRUE
    /\ cmd = "parse"
    /\ pc = "input"
    /\ interactive = FALSE
    /\ yes = FALSE
    /\ force = FALSE
    /\ file = <<>>
    /\ env = <<>>
    /\ result = ""
    /\ filesAtStart = files
    /\ content \in ParseTexts
    /\ secrets = EmptyMap
    /\ localSecrets = EmptyMap
    /\ vaultSecrets = EmptyMap
    /\ vaultContent = <<>>
    /\ localExists = FALSE
    /\ pdiff = EmptyPushDiff
    /\ sdiff = EmptySecretsDiff
    /\ finalContent = <<>>
    /\ InitHistory

\* secrets := parseEnvContent(content)
ParseContent ==
    /\ cmd = "parse"
    /\ pc = "input"
    /\ secrets' = parseEnvContent(content)
    /\ pc' = "parsed"
    /\ UNCHANGED <<envVars, flagVars, file, env, result, histVars>>
    /\ UNCHANGED <<content, vaultSecrets, vaultContent, localSecrets, localExists,
                   pdiff, sdiff, finalContent>>

\* The entries of secrets written as mergeSecrets writes local-only entries,
\* in the order a loop over the map visits them, and the text parsed again.
ParseWritten ==
    /\ cmd = "parse"
    /\ pc = "parsed"
    /\ \E order \in RangeOrders(DOMAIN secrets) :
        /\ finalContent' = writeLines(localOnlyLines(order, secrets, EmptyMap))
        /\ localSecrets' = parseEnvContent(finalContent')
    /\ pc' = "reparsed"
    /\ UNCHANGED <<envVars, flagVars, file, env, result, histVars>>
    /\ UNCHANGED <<content, secrets, vaultSecrets, vaultContent, localExists,
                   pdiff, sdiff>>

NextParse == ParseContent \/ ParseWritten

SpecParse == InitParse /\ [][NextParse]_vars

\* ---------------------------------------------------- mergeSecrets alone

\* The vault contents mergeSecrets is checked on.
MergeTexts == RemoteTexts \cup {TextComment}

InitMerge ==
    /\ files = [n \in FileNames |-> NoFile]
    /\ unreadable = {}
    /\ vault = [e \in EnvNames |-> NoVault]
    /\ gitignored = TRUE
    /\ cmd = "merge"
    /\ pc = "input"
    /\ interactive = FALSE
    /\ yes = FALSE
    /\ force = FALSE
    /\ file = <<>>
    /\ env = <<>>
    /\ result = ""
    /\ filesAtStart = files
    /\ content = <<>>
    /\ secrets = EmptyMap
    /\ localSecrets \in DiffSecretSets
    /\ vaultContent \in MergeTexts
    /\ vaultSecrets = parseEnvContent(vaultContent)
    /\ localExists = TRUE
    /\ pdiff = EmptyPushDiff
    /\ sdiff = EmptySecretsDiff
    /\ finalContent = <<>>
    /\ InitHistory

\* finalContent = mergeSecrets(vaultContent, localSecrets, vaultSecrets)
Merge ==
    /\ cmd = "merge"
    /\ pc = "input"
    /\ \E lo \in RangeOrders(DOMAIN localSecrets) :
        finalContent' = mergeSecrets(vaultContent, localSecrets, vaultSecrets, lo)
    /\ pc' = "merged"
    /\ UNCHANGED <<envVars, flagVars, file, env, result, histVars>>
    /\ UNCHANGED <<content, secrets, vaultSecrets, vaultContent, localSecrets,
                   localExists, pdiff, sdiff>>

NextMerge == Merge

SpecMerge == InitMerge /\ [][NextMerge]_vars

\* ------------------------------------------------------------- claims

\* No element occurs twice in s.
NoDuplicates(s) == Cardinality(Range(s)) = Len(s)

\* s is in Go's sorted order of strings.
IsSorted(s) == \A i, j \in DOMAIN s : i < j => StrLess(s[i], s[j])

\* C1: calculatePushDiff(local, remote) lists in added exactly the keys of
\* local that remote lacks, in changed exactly the keys of both with different
\* values, in removed exactly the keys of remote that local lacks; no key is
\* listed twice, the buckets are pairwise disjoint, and a key with equal
\* values in both is in no bucket.
C1_PushDiffPartition ==
    pc = "pushdiff" =>
        LET L == DOMAIN secrets
            R == DOMAIN vaultSecrets
            A == Range(pdiff.added)
            C == Range(pdiff.changed)
            D == Range(pdiff.removed)
        IN  /\ A = L \ R
            /\ C = {k \in L \cap R : secrets[k] # vaultSecrets[k]}
            /\ D = R \ L
            /\ NoDuplicates(pdiff.added)
            /\ NoDuplicates(pdiff.changed)
            /\ NoDuplicates(pdiff.removed)
            /\ A \cap C = {} /\ A \cap D = {} /\ C \cap D = {}
            /\ \A k \in L \cap R :
                    secrets[k] = vaultSecrets[k] => k \notin A \cup C \cup D

\* C1 witness: a push diff with a key in each of the three buckets.
C1_Witness ==
    /\ pc = "pushdiff"
    /\ Len(pdiff.added) > 0
    /\ Len(pdiff.changed) > 0
    /\ Len(pdiff.removed) > 0

\* C2: calculateDiff(local, remote) lists every key of local and remote in
\* exactly one of its four buckets and exactly once: added when only remote
\* has it, localOnly when only local has it, changed when both have it with
\* different values, unchanged when both have it with equal values; no other
\* key is listed.
C2_PullDiffPartition ==
    pc = "pulldiff" =>
        LET L == DOMAIN localSecrets
            R == DOMAIN vaultSecrets
            buckets == <<sdiff.added, sdiff.changed, sdiff.localOnly, sdiff.unchanged>>
        IN  /\ Range(sdiff.added) = R \ L
            /\ Range(sdiff.localOnly) = L \ R
            /\ Range(sdiff.changed) =
                    {k \in L \cap R : localSecrets[k] # vaultSecrets[k]}
            /\ Range(sdiff.unchanged) =
                    {k \in L \cap R : localSecrets[k] = vaultSecrets[k]}
            /\ \A i \in DOMAIN buckets : NoDuplicates(buckets[i])
            /\ \A k \in L \cup R :
                    Cardinality({i \in DOMAIN buckets : k \in Range(buckets[i])}) = 1
            /\ \A i \in DOMAIN buckets : Range(buckets[i]) \subseteq L \cup R

\* C2 witness: a pull diff with an added, a changed and a local-only key.
C2_Witness ==
    /\ pc = "pulldiff"
    /\ Len(sdiff.added) > 0
    /\ Len(sdiff.changed) > 0
    /\ Len(sdiff.localOnly) > 0

\* C10: every bucket of calculatePushDiff and of calculateDiff lists its keys
\* in sorted order, whatever order the maps are visited in.
C10_BucketsSorted ==
    /\ pc = "pushdiff" =>
            /\ IsSorted(pdiff.added)
            /\ IsSorted(pdiff.changed)
            /\ IsSorted(pdiff.removed)
    /\ pc = "pulldiff" =>
            /\ IsSorted(sdiff.added)
            /\ IsSorted(sdiff.changed)
            /\ IsSorted(sdiff.localOnly)
            /\ IsSorted(sdiff.unchanged)

\* A pull that wrote its file.
PullWrote == cmd = "pull" /\ pc = "done" /\ result = "ok"

C4_ReplaceText ==
    (PullWrote /\ (force \/ ~localExists)) =>
        /\ files[file].data = vault[env].content
        /\ \A k \in DOMAIN localSecrets \ DOMAIN vaultSecrets :
                k \notin DOMAIN parseEnvContent(files[file].data)

\* C4 witness: a forced pull over a local file with a key the vault lacks,
\* of a vault content that does not end in exactly one newline.
C4_Witness ==
    /\ PullWrote /\ force /\ localExists
    /\ DOMAIN localSecrets \ DOMAIN vaultSecrets # {}
    /\ vaultContent # TrimRightNL(vaultContent) \o <<"\n">>

\* C5: push uploads only after --yes or after the operator confirmed; a
\* non-interactive push without --yes that reaches the confirmation fails
\* with "confirmation required" and uploads nothing; a push the operator
\* declined uploads nothing.
C5_UploadGated ==
    /\ (cmd = "push" /\ (uploads > 0 \/ pc = "upload")) => (yes \/ confirmed)
    /\ (cmd = "push" /\ pc = "done" /\ ~yes /\ ~interactive /\ fetches > 0
            /\ result # "fetch failed")
        => (result = "confirmation required" /\ uploads = 0)
    /\ (cmd = "push" /\ pc = "done" /\ ~yes /\ interactive /\ ~confirmed)
        => uploads = 0

\* C5 witness: an upload made without --yes, after the operator confirmed.
C5_Witness == cmd = "push" /\ uploads = 1 /\ ~yes /\ confirmed

\* C6: pull overwrites a file that exists on disk only after --yes or after
\* the operator confirmed; without either the file is left as it was.
C6_OverwriteGated ==
    (cmd = "pull" /\ filesAtStart[file].exists /\ ~yes /\ ~confirmed) =>
        /\ writes = 0
        /\ files[file] = filesAtStart[file]

\* The results with which runPush returns before it has read the file.
PushReturnedBeforeRead ==
    result \in {"no .env file found", "created", "write failed", "not created",
                "select failed", "file not found"}

\* C7: a push whose file is whitespace-only fails with "file is empty", one
\* whose file is not blank and has no variable fails with "no variables
\* found", and neither makes a fetch or an upload.
C7_EmptyRejected ==
    (cmd = "push" /\ pc \notin {"discover", "read"} /\ ~PushReturnedBeforeRead) =>
        LET text == files[file].data
            blank == Len(TrimSpace(text)) = 0
            noVariables == DOMAIN parseEnvContent(text) = {}
        IN  (blank \/ noVariables) =>
                /\ pc = "done"
                /\ result = IF blank THEN "file is empty" ELSE "no variables found"
                /\ fetches = 0
                /\ uploads = 0

\* C7 witness: a push of a file of comments only, rejected.
C7_Witness ==
    /\ cmd = "push" /\ pc = "done" /\ result = "no variables found"
    /\ Len(TrimSpace(files[file].data)) > 0

\* C8: a push of a file to an environment whose vault holds the last upload
\* of that file, neither written since, computes a diff with no changes.
C8_SecondPushNoChanges ==
    (cmd = "push" /\ pc = "confirm" /\ <<file, env>> \in synced) =>
        ~pushDiffHasChanges(pdiff)

\* C9: in push a 404 of the fetch is an empty vault: the command goes on and
\* previews every local key as added.  In pull a 404, and in both commands
\* any other fetch error, ends the command with an error, without an upload
\* and without a write of the local file.
C9_NotFoundOnlyInPush ==
    /\ (cmd = "push" /\ pc = "confirm" /\ ~vault[env].found) =>
            /\ result = ""
            /\ vaultSecrets = EmptyMap
            /\ Range(pdiff.added) = DOMAIN secrets
            /\ NoDuplicates(pdiff.added)
            /\ pdiff.changed = <<>> /\ pdiff.removed = <<>>
    /\ (cmd = "pull" /\ fetches > 0 /\ ~vault[env].found) =>
            /\ pc = "done" /\ result \in ErrorResults
            /\ uploads = 0 /\ writes = 0 /\ files = filesAtStart
    /\ result = "fetch failed" =>
            /\ pc = "done" /\ result \in ErrorResults
            /\ uploads = 0 /\ writes = 0 /\ files = filesAtStart

\* C9 witness: a push that went on after a 404 and previews two added keys.
C9_Witness ==
    /\ cmd = "push" /\ pc = "confirm" /\ ~vault[env].found
    /\ Len(pdiff.added) = 2


\* The lines of the text given to parseEnvContent, and what each of them
\* alone adds to an empty map.
ContentLines == Split(content)
LineEntry(i) == parseLine(ContentLines[i], EmptyMap)

\* C11: parseEnvContent maps every key of a parseable line to the value of the
\* last parseable line that has the key, and has one entry per distinct key
\* and no other entry.
C11_LastOccurrenceWins ==
    (cmd = "parse" /\ pc = "parsed") =>
        LET keys == UNION {DOMAIN LineEntry(i) : i \in DOMAIN ContentLines}
            last(k) == SetMax({i \in DOMAIN ContentLines : k \in DOMAIN LineEntry(i)})
        IN  /\ DOMAIN secrets = keys
            /\ \A k \in keys : secrets[k] = LineEntry(last(k))[k]

\* C11 witness: a parsed text with two lines of the same key and different
\* values.
C11_Witness ==
    /\ cmd = "parse" /\ pc = "parsed"
    /\ \E i, j \in DOMAIN ContentLines :
        /\ i < j
        /\ DOMAIN LineEntry(i) # {}
        /\ DOMAIN LineEntry(i) = DOMAIN LineEntry(j)
        /\ LineEntry(i) # LineEntry(j)


\* The raw value of a line: what follows the first "=" of the trimmed line.
RawValue(i) ==
    LET line == TrimSpace(ContentLines[i])
    IN  SubSeq(line, Index(line, EQ) + 2, Len(line))

\* v is wrapped in a pair of the quote character q.
Wrapped(v, q) == Len(v) >= 2 /\ v[1] = q /\ v[Len(v)] = q

\* The lines whose entry is in the map parseEnvContent returns: for each key
\* the last parseable line that has it.
LastLines ==
    {i \in DOMAIN ContentLines :
        /\ DOMAIN LineEntry(i) # {}
        /\ \A j \in DOMAIN ContentLines :
                DOMAIN LineEntry(j) = DOMAIN LineEntry(i) => j <= i}

\* C12: the value parseEnvContent stores for a line is the raw value without
\* its first and its last character when these are the two ends of a pair
\* of double quotes or of a pair of single quotes, only that one layer; it
\* is the raw value as it is otherwise, a lone quote character included.
C12_OneQuoteLayer ==
    (cmd = "parse" /\ pc = "parsed") =>
        \A i \in LastLines :
            LET k == CHOOSE x \in DOMAIN LineEntry(i) : TRUE
                raw == RawValue(i)
            IN  /\ \A q \in {DQ, SQ} :
                        Wrapped(raw, q) => <<q>> \o secrets[k] \o <<q>> = raw
                /\ ~(Wrapped(raw, DQ) \/ Wrapped(raw, SQ)) => secrets[k] = raw

\* C12 witness: a raw value wrapped in two layers of double quotes, stored
\* with the inner layer still around it.
C12_Witness ==
    /\ cmd = "parse" /\ pc = "parsed"
    /\ \E i \in LastLines :
        \E k \in DOMAIN LineEntry(i) :
            Wrapped(RawValue(i), DQ) /\ Wrapped(secrets[k], DQ)


\* No value of m is wrapped in a pair of quotes.
Unquoted(m) == \A k \in DOMAIN m : ~(Wrapped(m[k], DQ) \/ Wrapped(m[k], SQ))

\* C13: for a SecretSet whose values are unquoted and whose keys are not
\* empty and have no "=" (here: one parseEnvContent returned), the text of
\* one KEY=VALUE line per entry, written as mergeSecrets writes local-only
\* entries and in any order of the entries, parses to that SecretSet again.
C13_ParseOfWritten ==
    (cmd = "parse" /\ pc = "reparsed" /\ Unquoted(secrets)) =>
        /\ \A k \in DOMAIN secrets : k # <<>> /\ EQ \notin Range(k)
        /\ localSecrets = secrets


\* C14: a push or pull in which a step failed (repository detection, login,
\* a fetch other than push's 404, the confirmation of a non-interactive run,
\* the upload, the write of the file) has returned an error and has run no
\* later step: no fetch after a failed detection or login, no upload and no
\* write of a file after a failed fetch or a refused confirmation, the file
\* untouched after a failed write; and no invocation fetches or uploads twice.
C14_FailureAborts ==
    /\ fetches <= 1 /\ uploads <= 1 /\ writes <= 1
    /\ result \in ErrorResults => pc = "done"
    /\ result \in {"repo not detected", "login failed"} =>
            fetches = 0 /\ uploads = 0 /\ writes = 0 /\ files = filesAtStart
    /\ result \in {"fetch failed", "not found"} =>
            fetches = 1 /\ uploads = 0 /\ writes = 0 /\ files = filesAtStart
    /\ result = "confirmation required" =>
            fetches = 1 /\ uploads = 0 /\ writes = 0 /\ files = filesAtStart
    /\ result = "upload failed" =>
            cmd = "push" /\ fetches = 1 /\ uploads = 1 /\ vaultAtUpload = NoVault
    /\ result = "write failed" =>
            uploads = 0 /\ writes = 0 /\ files = filesAtStart
    /\ (cmd = "push" /\ uploads = 1) => fetches = 1
    /\ (cmd = "pull" /\ writes = 1) => fetches = 1 /\ result = "ok"

\* C14 witness: a pull whose fetch failed, returned with the file as it was.
C14_Witness ==
    /\ cmd = "pull" /\ pc = "done" /\ result = "fetch failed"
    /\ filesAtStart[file].exists /\ yes


\* C15: hasChanges() of a push diff is true exactly when added, changed or
\* removed lists a key; hasChanges() of a pull diff is true exactly when
\* added, changed or localOnly lists a key, whatever unchanged lists.
C15_HasChanges ==
    /\ (cmd = "diff" /\ pc = "pushdiff") =>
            /\ result \in {"changes", "no changes"}
            /\ result = "changes" <=>
                    Range(pdiff.added) \cup Range(pdiff.changed)
                        \cup Range(pdiff.removed) # {}
    /\ (cmd = "diff" /\ pc = "pulldiff") =>
            /\ result \in {"changes", "no changes"}
            /\ result = "changes" <=>
                    Range(sdiff.added) \cup Range(sdiff.changed)
                        \cup Range(sdiff.localOnly) # {}

\* C15 witness: a pull diff that lists unchanged keys only, without changes.
C15_Witness ==
    /\ cmd = "diff" /\ pc = "pulldiff"
    /\ Len(sdiff.unchanged) > 0
    /\ result = "no changes"


\* A push that uploaded.
PushUploaded == cmd = "push" /\ pc = "done" /\ result = "ok"

\* The keys the full-replace upload deleted from the vault: those of the
\* content it replaced that the uploaded SecretSet lacks.
DeletedByUpload == DOMAIN parseEnvContent(vaultAtUpload.content) \ DOMAIN secrets

\* C16 as stated: the keys a successful upload deleted from the vault are the
\* keys of the removed bucket previewed, in every interleaving, a write of
\* another client between the fetch and the upload included.
C16_DeletedIsPreviewed ==
    PushUploaded => DeletedByUpload = Range(pdiff.removed)

\* C16 amended: the keys a successful upload deleted from the vault are the
\* keys of the removed bucket previewed when the vault holds at the upload
\* what it held at the fetch.
C16_DeletedIsPreviewedIfUnwritten ==
    (PushUploaded /\ vaultAtUpload = vaultAtFetch) =>
        DeletedByUpload = Range(pdiff.removed)

\* C16 witness: an upload that deleted a key, previewed as removed, from a
\* vault no one wrote between the fetch and the upload.
C16_Witness ==
    /\ PushUploaded /\ vaultAtUpload = vaultAtFetch
    /\ DeletedByUpload # {}


\* C17: after the operator picked a candidate at the prompt of an interactive
\* push without --file, the file the push reads, diffs and uploads is that
\* candidate, and without --env the environment is the one derived from that
\* candidate's name.
C17_SelectedIsPushed ==
    (cmd = "push" /\ selected # NoSelection) =>
        /\ file = selected.file
        /\ selected.env = <<>> => env = deriveEnvFromFile(selected.file)
        /\ selected.env # <<>> => env = selected.env
        /\ pc \notin {"discover", "read"} /\ ~PushReturnedBeforeRead =>
                content = files[selected.file].data


\* m extended with every entry of local whose key m lacks.
ExtendedWith(m, local) ==
    [k \in DOMAIN m \cup DOMAIN local |-> IF k \in DOMAIN m THEN m[k] ELSE local[k]]

\* C18: after a pull in merge mode (the local file was read, --force is not
\* set, the write succeeded) the written file parses to the vault's SecretSet
\* extended with every local-only key mapped to the value the local file gave
\* it, whatever that value is.
C18_MergeKeepsLocalOnly ==
    (PullWrote /\ localExists /\ ~force) =>
        LET remote == parseEnvContent(vault[env].content)
            local == parseEnvContent(filesAtStart[file].data)
        IN  parseEnvContent(files[file].data) = ExtendedWith(remote, local)


\* C19: the text mergeSecrets returns is a function of the vault's raw text
\* and the two SecretSets alone: the vault's text without its trailing
\* newlines, then the local-only lines under their comment in the sorted
\* order of their keys, whatever order the loop visits the local map in.
C19_MergeDeterministic ==
    (cmd = "merge" /\ pc = "merged") =>
        LET keys == SortedNames(DOMAIN localSecrets \ DOMAIN vaultSecrets)
            line(k) == k \o <<"=">> \o localSecrets[k] \o <<"\n">>
            tail == Concat([i \in DOMAIN keys |-> line(keys[i])])
        IN  finalContent =
                TrimRightNL(vaultContent)
                \o (IF Len(keys) = 0 THEN <<"\n">> ELSE LocalHeader \o tail)

==========================================================================
